---- MODULE Spec2Model ----
(***************************************************************************)
(* Model of the worker pool of rust-webserver (src/src/threadpool.rs).     *)
(*                                                                         *)
(* ThreadPool::new(n) creates one mpsc channel, wraps its Receiver in      *)
(* Arc<Mutex<..>> and spawns n worker threads.  Every worker thread runs   *)
(*                                                                         *)
(*   loop {                                                                *)
(*     let (f, arg) = _rx.lock().unwrap().recv().unwrap();   // line 20    *)
(*     println!("worker {} executing job", id);              // line 21    *)
(*     f(arg);                                               // line 22    *)
(*   }                                                                     *)
(*                                                                         *)
(* The MutexGuard is a temporary of the let statement of line 20: it is    *)
(* held while the thread sits in recv() and released when the statement    *)
(* ends, before lines 21-22.  A panic while the guard is held poisons the  *)
(* mutex; lock() on a poisoned mutex returns Err and unwrap() panics.      *)
(* recv() returns Err only when the queue is empty and every Sender has    *)
(* been dropped; send() returns Err only when the Receiver has been        *)
(* dropped.                                                                *)
(***************************************************************************)
EXTENDS Naturals, Integers, Sequences, FiniteSets, TLC

\* ------------------------------------------------------------------ bounds
\* Largest n given to ThreadPool::new in the model.
MaxWorkers == 2
\* Largest number of execute() calls that enqueue a job.
MaxJobs == 3

\* ------------------------------------------------------------------ inputs
\* Threads that call execute() on the pool: the thread that owns it (the
\* accept loop of HttpServer::serve, the body of threadpool_test).
Producers == {"main"}
\* Payload values (type parameter T).  The pool never inspects a payload;
\* jobs are told apart by their serial, not by their payload.
Payloads == {"Value 1"}
\* Handlers (JobFn<T>), classified by what a call f(arg) does: it returns,
\* it never returns, it panics, or it takes io::stdout().lock() and never
\* returns (and so never gives the lock back).
Handlers == {"returns", "blocks", "faults", "locks_stdout"}

\* The outcomes a call of handler f can have.  The handlers of HttpServer
\* (add_route's closure, the three error handlers) end in
\* stream.write_all(..).unwrap(): they return, or panic when the write fails.
Behaviour(f) ==
  CASE f = "returns" -> {"return"}
    [] f = "blocks"  -> {}
    [] f = "faults"  -> {"panic"}
    [] f = "locks_stdout" -> {}
    [] OTHER         -> {"return", "panic"}

\* The lock of stdout held by nobody, or only for the time of a println!
\* that returns.
StdoutFree == [kind |-> "none", id |-> -1]
\* The lock of Mutex<Receiver> held by nobody.
NoWorker == -1
\* A worker thread that holds no (f, arg) pair.
NoJob == [id |-> 0, producer |-> "none", f |-> "none", arg |-> "none"]

VARIABLES
  size,        \* the argument n of ThreadPool::new(n)
  workers,     \* ThreadPool.workers: the Vec<Worker>, records (id, rx)
  pc,          \* per worker thread: where it is in the loop of Worker::new
  cur,         \* per worker thread: the (f, arg) pair bound at line 20
  queue,       \* the channel's buffer: jobs sent and not yet received
  lockHolder,  \* the thread holding the MutexGuard of rx, or NoWorker
  poisoned,    \* the mutex's poison flag
  poolAlive,   \* the ThreadPool value (its tx and its workers Vec) exists
  prod,        \* per producer thread: "running" or "panicked"
  nextId,      \* number of jobs enqueued so far (the last job's serial)
  sent,        \* history: the jobs for which send() returned Ok, in order,
               \* each with the number of handlers that had panicked by then
  dequeued,    \* history: (job, worker) in the order recv() returned them
  started,     \* history: (job, worker) of every call f(arg), one entry
               \* per call, listed by job serial
  finished,    \* history: serials of the jobs whose handler returned
  faulted,     \* history: serials of the jobs whose handler panicked
  shutdownCalled, \* history: shutdown() has been called
  conns,       \* history: what the client of each accepted connection sends
  routes,      \* HttpServer.routes: (method, uri) -> handler
  error_handlers, \* HttpServer.error_handlers: HttpError -> handler
  mainPc,      \* the accept loop's thread: "accept" (in listener.incoming()),
               \* "read" (in respond, reading the header), "respond" (the
               \* header is parsed, main.rs:146 or 151 is next), "send"
               \* (that println! has returned, route or handle_error is
               \* next), "report" (route has returned, main.rs:148 is
               \* next), or "respond_print" / "report_print" (inside a
               \* println!, in a write to stdout that never returns)
  stdoutHolder \* the thread that holds the lock of stdout and never gives
               \* it back, or StdoutFree

vars == <<size, workers, pc, cur, queue, lockHolder, poisoned, poolAlive,
          prod, nextId, sent, dequeued, started, finished, faulted,
          shutdownCalled, conns, routes, error_handlers, mainPc,
          stdoutHolder>>

\* ------------------------------------------------------------ construction
\* The one Receiver created by mpsc::channel() in ThreadPool::new.
RX == "rx"

\* Mutant of NewWorkers: the range is 0..=n, one worker too many.
NewWorkersOffByOne(n) == [i \in 1..(n + 1) |-> [id |-> i - 1, rx |-> RX]]

\* (0..n).map(|i| Worker::new(i, Arc::clone(&rx))).collect()
NewWorkers(n) == [i \in 1..n |-> [id |-> i - 1, rx |-> RX]]

\* The ids of the spawned worker threads.
Threads == DOMAIN pc

\* Worker threads that have not panicked.
Live == {w \in Threads : pc[w] # "dead"}

\* The process-wide lock of stdout is held for good: by a handler that took
\* it with io::stdout().lock() and never returns, or by a println! (of a
\* worker, line 21, or of the accept loop's thread) in a write to stdout
\* that never returns.  Every println! needs that lock and gives it back
\* when it returns or panics.
StdoutHeld == stdoutHolder # StdoutFree

\* Mutant of RxRefs: the Worker records hold no rx; only the running
\* threads keep the Receiver.
RxRefsThreadsOnly == Cardinality(Live)

\* Mutant of RxRefs: the pool keeps a handle on the Receiver of its own.
RxRefsPoolOwned ==
  (IF poolAlive THEN Len(workers) + 1 ELSE 0) + Cardinality(Live)

\* Strong count of the Arc<Mutex<Receiver>>: one per Worker record owned by
\* the pool (field rx) and one per running thread (the moved _rx).  The local
\* rx of ThreadPool::new is dropped when new returns.
RxRefs == (IF poolAlive THEN Len(workers) ELSE 0) + Cardinality(Live)

\* RxRefs after thread w has terminated.
RxRefsWithout(w) ==
  (IF poolAlive THEN Len(workers) ELSE 0) + Cardinality(Live \ {w})

\* ------------------------------------------------------------- HttpServer
\* enum HttpMethod
HttpMethod == {"HttpMethod::GET", "HttpMethod::POST", "HttpMethod::PUT",
               "HttpMethod::DELETE"}

\* enum HttpError
HttpError == {"BadRequest", "NotFound", "InternalServerError"}

\* HttpServer::new: the three closures inserted into error_handlers.
NewErrorHandlers ==
  [e \in HttpError |->
     CASE e = "NotFound"            -> "error_404"
       [] e = "BadRequest"          -> "error_400"
       [] e = "InternalServerError" -> "error_500"]

\* add_route(m, uri, f): routes.insert((m, uri), closure).
add_route(rt, m, uri, h) ==
  [k \in DOMAIN rt \cup {<<m, uri>>} |-> IF k = <<m, uri>> THEN h ELSE rt[k]]

\* HttpServer::new starts with an empty map.
NoRoutes == [k \in {} |-> "none"]

\* main: the two add_route calls before app.serve().
MainRoutes ==
  add_route(add_route(NoRoutes, "HttpMethod::GET", "/", "route_root"),
            "HttpMethod::GET", "/sleep", "route_sleep")

\* ThreadPool::<TcpStream>::new(5) in HttpServer::new.
PoolSize == 5

\* Bound on the connections the server accepts in the model.
MaxConns == 2

Init ==
  /\ routes = MainRoutes
  /\ error_handlers = NewErrorHandlers
  /\ size \in 0..MaxWorkers
  /\ workers = NewWorkers(size)
  /\ pc = [w \in {workers[i].id : i \in DOMAIN workers} |-> "lock"]
  /\ cur = [w \in {workers[i].id : i \in DOMAIN workers} |-> NoJob]
  /\ queue = <<>>
  /\ lockHolder = NoWorker
  /\ poisoned = FALSE
  /\ poolAlive = TRUE
  /\ prod = [p \in Producers |-> "running"]
  /\ nextId = 0
  /\ sent = <<>>
  /\ mainPc = "accept"
  /\ stdoutHolder = StdoutFree
  /\ dequeued = <<>>
  /\ started = <<>>
  /\ finished = {}
  /\ faulted = {}
  /\ shutdownCalled = FALSE
  /\ conns = <<>>

\* ---------------------------------------------------------------- execute
\* Mutant of Send: the job is put at the front of the buffer.
SendFront(p, f, v) ==
  /\ RxRefs > 0
  /\ queue' = <<[id |-> nextId + 1, producer |-> p, f |-> f, arg |-> v]>>
                 \o queue
  /\ nextId' = nextId + 1
  /\ sent' = Append(sent, [job |-> [id |-> nextId + 1, producer |-> p,
                                    f |-> f, arg |-> v],
                           faults |-> Cardinality(faulted)])
  /\ UNCHANGED prod

\* tx.send((f, v)) succeeding: the job is appended to the channel's buffer.
Send(p, f, v) ==
  /\ RxRefs > 0
  /\ queue' = Append(queue, [id |-> nextId + 1, producer |-> p,
                             f |-> f, arg |-> v])
  /\ nextId' = nextId + 1
  /\ sent' = Append(sent, [job |-> [id |-> nextId + 1, producer |-> p,
                                    f |-> f, arg |-> v],
                           faults |-> Cardinality(faulted)])
  /\ UNCHANGED prod

\* tx.send((f, v)) on a channel whose Receiver is gone returns Err, and
\* unwrap() panics in the calling thread; the job is not enqueued.
SendErr(p) ==
  /\ RxRefs = 0
  /\ prod' = [prod EXCEPT ![p] = "panicked"]
  /\ UNCHANGED <<queue, nextId, sent>>

\* Mutant of Execute: the sender goes through the workers' mutex, so it
\* waits while a worker holds the receive lock.
ExecuteUnderLock(p, f, v) ==
  /\ poolAlive
  /\ prod[p] = "running"
  /\ nextId < MaxJobs
  /\ lockHolder = NoWorker
  /\ (Send(p, f, v) \/ SendErr(p))
  /\ UNCHANGED <<shutdownCalled, routes, error_handlers>>
  /\ UNCHANGED <<size, workers, pc, cur, lockHolder, poisoned, poolAlive,
                 dequeued, started, finished, faulted>>

\* pub fn execute(&self, f, v) { self.tx.send((f, v)).unwrap(); }
Execute(p, f, v) ==
  /\ poolAlive
  /\ prod[p] = "running"
  /\ nextId < MaxJobs
  /\ (Send(p, f, v) \/ SendErr(p))
  /\ UNCHANGED <<shutdownCalled, routes, error_handlers>>
  /\ UNCHANGED <<size, workers, pc, cur, lockHolder, poisoned, poolAlive,
                 dequeued, started, finished, faulted>>

\* Mutant of Shutdown: the call closes the queue (drops tx), as a shutdown
\* that stops the workers would.
ShutdownClosesQueue ==
  /\ poolAlive
  /\ poolAlive' = FALSE
  /\ queue' = IF Live = {} THEN <<>> ELSE queue
  /\ UNCHANGED <<size, workers, pc, cur, lockHolder, poisoned, prod, nextId,
                 dequeued, started, finished, faulted, conns, routes, error_handlers, sent, mainPc, stdoutHolder>>

\* pub fn shutdown(&mut self) { }  The body is empty.  Whether the call is
\* recorded in the history shutdownCalled is left to the specification.
Shutdown ==
  /\ poolAlive
  /\ UNCHANGED <<size, workers, pc, cur, queue, lockHolder, poisoned,
                 poolAlive, prod, nextId, dequeued, started, finished,
                 faulted, conns, routes, error_handlers, sent, mainPc, stdoutHolder>>

\* The ThreadPool value is dropped: tx is dropped (the channel has no Sender
\* left) and so is the workers Vec (the JoinHandles detach the threads, the
\* Worker records release their rx).  If no thread is left either, the
\* Receiver is freed together with the jobs still buffered.
DropPool ==
  /\ poolAlive
  /\ poolAlive' = FALSE
  /\ queue' = IF Live = {} THEN <<>> ELSE queue
  /\ UNCHANGED <<shutdownCalled, conns, routes, error_handlers, sent, mainPc, stdoutHolder>>
  /\ UNCHANGED <<size, workers, pc, cur, lockHolder, poisoned, prod, nextId,
                 dequeued, started, finished, faulted>>

\* ----------------------------------------------------------- worker thread
\* _rx.lock() returning Ok(guard): the thread now holds the lock.
LockOk(w) ==
  /\ w \in Threads
  /\ pc[w] = "lock"
  /\ lockHolder = NoWorker
  /\ ~poisoned
  /\ lockHolder' = w
  /\ pc' = [pc EXCEPT ![w] = "recv"]
  /\ UNCHANGED <<shutdownCalled, conns, routes, error_handlers, sent, mainPc, stdoutHolder>>
  /\ UNCHANGED <<size, workers, cur, queue, poisoned, poolAlive, prod,
                 nextId, dequeued, started, finished, faulted>>

\* _rx.lock() on the poisoned mutex returns Err; unwrap() panics and the
\* guard carried by the error is dropped: the thread ends, the lock is free.
LockPoisoned(w) ==
  /\ w \in Threads
  /\ pc[w] = "lock"
  /\ lockHolder = NoWorker
  /\ poisoned
  /\ pc' = [pc EXCEPT ![w] = "dead"]
  /\ queue' = IF RxRefsWithout(w) = 0 THEN <<>> ELSE queue
  /\ UNCHANGED <<shutdownCalled, conns, routes, error_handlers, sent, mainPc, stdoutHolder>>
  /\ UNCHANGED <<size, workers, cur, lockHolder, poisoned, poolAlive, prod,
                 nextId, dequeued, started, finished, faulted>>

\* Mutant of Recv: the job is read but left in the buffer (a peek).
RecvPeek(w) ==
  /\ w \in Threads
  /\ pc[w] = "recv"
  /\ queue # <<>>
  /\ cur' = [cur EXCEPT ![w] = Head(queue)]
  /\ dequeued' = Append(dequeued, [job |-> Head(queue), w |-> w])
  /\ lockHolder' = NoWorker
  /\ pc' = [pc EXCEPT ![w] = "call"]
  /\ UNCHANGED <<shutdownCalled, conns, routes, error_handlers, sent, mainPc, stdoutHolder>>
  /\ UNCHANGED <<size, workers, queue, poisoned, poolAlive, prod, nextId,
                 started, finished, faulted>>

\* recv() returning Ok((f, arg)): the oldest buffered job is taken, the let
\* statement ends and its temporary guard is dropped.
Recv(w) ==
  /\ w \in Threads
  /\ pc[w] = "recv"
  /\ queue # <<>>
  /\ cur' = [cur EXCEPT ![w] = Head(queue)]
  /\ queue' = Tail(queue)
  /\ dequeued' = Append(dequeued, [job |-> Head(queue), w |-> w])
  /\ lockHolder' = NoWorker
  /\ pc' = [pc EXCEPT ![w] = "call"]
  /\ UNCHANGED <<shutdownCalled, conns, routes, error_handlers, sent, mainPc, stdoutHolder>>
  /\ UNCHANGED <<size, workers, poisoned, poolAlive, prod, nextId, started,
                 finished, faulted>>

\* recv() on the empty channel whose Sender is gone returns Err; unwrap()
\* panics while the guard is held, which poisons the mutex and releases it.
RecvDisconnected(w) ==
  /\ w \in Threads
  /\ pc[w] = "recv"
  /\ queue = <<>>
  /\ ~poolAlive
  /\ poisoned' = TRUE
  /\ lockHolder' = NoWorker
  /\ pc' = [pc EXCEPT ![w] = "dead"]
  /\ UNCHANGED <<shutdownCalled, conns, routes, error_handlers, sent, mainPc, stdoutHolder>>
  /\ UNCHANGED <<size, workers, cur, queue, poolAlive, prod, nextId,
                 dequeued, started, finished, faulted>>

\* The history h with the entry e added, entries listed by job serial.
Record(h, e) ==
  SelectSeq(h, LAMBDA x : x.job.id <= e.job.id) \o <<e>>
    \o SelectSeq(h, LAMBDA x : x.job.id > e.job.id)

\* Mutant of Call: the handler is run on a thread of its own and the
\* worker goes straight back to the queue.
CallDetached(w) ==
  /\ w \in Threads
  /\ pc[w] = "call"
  /\ pc' = [pc EXCEPT ![w] = "lock"]
  /\ cur' = [cur EXCEPT ![w] = NoJob]
  /\ started' = Record(started, [job |-> cur[w], w |-> w])
  /\ UNCHANGED <<shutdownCalled, conns, routes, error_handlers, sent, mainPc, stdoutHolder>>
  /\ UNCHANGED <<size, workers, queue, lockHolder, poisoned, poolAlive,
                 prod, nextId, dequeued, finished, faulted>>

\* println!(..) of line 21 fails to write to stdout (a closed pipe, a full
\* device) and panics: the thread ends with the job in hand, the handler is
\* never called and the job is destroyed.  The guard was released at line
\* 20, so the mutex is not poisoned.
PrintlnPanic(w) ==
  /\ w \in Threads
  /\ pc[w] = "call"
  /\ ~StdoutHeld
  /\ pc' = [pc EXCEPT ![w] = "dead"]
  /\ cur' = [cur EXCEPT ![w] = NoJob]
  /\ queue' = IF RxRefsWithout(w) = 0 THEN <<>> ELSE queue
  /\ UNCHANGED <<shutdownCalled, conns, routes, error_handlers, sent, mainPc, stdoutHolder>>
  /\ UNCHANGED <<size, workers, lockHolder, poisoned, poolAlive, prod,
                 nextId, dequeued, started, finished, faulted>>

\* println!(..) of line 21 takes the lock of stdout and its write never
\* returns (stdout is a pipe that is full and that nobody reads): the thread
\* stays there for ever, alive, with the job in hand and the lock of stdout.
PrintlnBlocks(w) ==
  /\ w \in Threads
  /\ pc[w] = "call"
  /\ ~StdoutHeld
  /\ pc' = [pc EXCEPT ![w] = "print"]
  /\ stdoutHolder' = [kind |-> "worker", id |-> w]
  /\ UNCHANGED <<shutdownCalled, conns, routes, error_handlers, sent, mainPc>>
  /\ UNCHANGED <<size, workers, cur, queue, lockHolder, poisoned, poolAlive,
                 prod, nextId, dequeued, started, finished, faulted>>

\* println!(..); f(arg): the line is printed, for which println! takes the
\* lock of stdout and gives it back, and the handler is entered.
Call(w) ==
  /\ w \in Threads
  /\ pc[w] = "call"
  /\ ~StdoutHeld
  /\ pc' = [pc EXCEPT ![w] = "exec"]
  /\ started' = Record(started, [job |-> cur[w], w |-> w])
  /\ UNCHANGED <<shutdownCalled, conns, routes, error_handlers, sent, mainPc, stdoutHolder>>
  /\ UNCHANGED <<size, workers, cur, queue, lockHolder, poisoned, poolAlive,
                 prod, nextId, dequeued, finished, faulted>>

\* f(arg) returns: the loop starts over.
HandlerReturn(w) ==
  /\ w \in Threads
  /\ pc[w] = "exec"
  /\ "return" \in Behaviour(cur[w].f)
  /\ pc' = [pc EXCEPT ![w] = "lock"]
  /\ cur' = [cur EXCEPT ![w] = NoJob]
  /\ finished' = finished \cup {cur[w].id}
  /\ UNCHANGED <<shutdownCalled, conns, routes, error_handlers, sent, mainPc, stdoutHolder>>
  /\ UNCHANGED <<size, workers, queue, lockHolder, poisoned, poolAlive, prod,
                 nextId, dequeued, started, faulted>>

\* Inside f(arg): the handler takes io::stdout().lock(), which it never
\* gives back.  While another thread holds that lock for good the handler
\* waits for it, inside f(arg).
HandlerLocksStdout(w) ==
  /\ w \in Threads
  /\ pc[w] = "exec"
  /\ cur[w].f = "locks_stdout"
  /\ ~StdoutHeld
  /\ stdoutHolder' = [kind |-> "worker", id |-> w]
  /\ UNCHANGED <<shutdownCalled, conns, routes, error_handlers, sent, mainPc>>
  /\ UNCHANGED <<size, workers, pc, cur, queue, lockHolder, poisoned,
                 poolAlive, prod, nextId, dequeued, started, finished,
                 faulted>>

\* Mutant of HandlerPanic: the pool replaces the lost thread with a new
\* worker.
HandlerPanicRespawn(w) ==
  /\ w \in Threads
  /\ pc[w] = "exec"
  /\ "panic" \in Behaviour(cur[w].f)
  /\ workers' = Append(workers, [id |-> Len(workers), rx |-> RX])
  /\ pc' = [x \in Threads \cup {Len(workers)} |->
             IF x = w THEN "dead" ELSE IF x \in Threads THEN pc[x] ELSE "lock"]
  /\ cur' = [x \in Threads \cup {Len(workers)} |->
             IF x \in Threads \ {w} THEN cur[x] ELSE NoJob]
  /\ faulted' = faulted \cup {cur[w].id}
  /\ UNCHANGED <<shutdownCalled, conns, routes, error_handlers, sent, mainPc, stdoutHolder>>
  /\ UNCHANGED <<size, queue, lockHolder, poisoned, poolAlive, prod, nextId,
                 dequeued, started, finished>>

\* Mutant of HandlerPanic: the panic is caught (catch_unwind) and the loop
\* goes on.
HandlerPanicCaught(w) ==
  /\ w \in Threads
  /\ pc[w] = "exec"
  /\ "panic" \in Behaviour(cur[w].f)
  /\ pc' = [pc EXCEPT ![w] = "lock"]
  /\ cur' = [cur EXCEPT ![w] = NoJob]
  /\ faulted' = faulted \cup {cur[w].id}
  /\ UNCHANGED <<shutdownCalled, conns, routes, error_handlers, sent, mainPc, stdoutHolder>>
  /\ UNCHANGED <<size, workers, queue, lockHolder, poisoned, poolAlive,
                 prod, nextId, dequeued, started, finished>>

\* Mutant of HandlerPanic: the panic is handed on to the thread that
\* submitted the job.
HandlerPanicPropagates(w) ==
  /\ w \in Threads
  /\ pc[w] = "exec"
  /\ "panic" \in Behaviour(cur[w].f)
  /\ pc' = [pc EXCEPT ![w] = "dead"]
  /\ cur' = [cur EXCEPT ![w] = NoJob]
  /\ faulted' = faulted \cup {cur[w].id}
  /\ prod' = [prod EXCEPT ![cur[w].producer] = "panicked"]
  /\ queue' = IF RxRefsWithout(w) = 0 THEN <<>> ELSE queue
  /\ UNCHANGED <<shutdownCalled, conns, routes, error_handlers, sent, mainPc, stdoutHolder>>
  /\ UNCHANGED <<size, workers, lockHolder, poisoned, poolAlive,
                 nextId, dequeued, started, finished>>

\* f(arg) panics: nothing catches it, the thread unwinds and ends.  The
\* guard was released at line 20, so the mutex is not poisoned.
HandlerPanic(w) ==
  /\ w \in Threads
  /\ pc[w] = "exec"
  /\ "panic" \in Behaviour(cur[w].f)
  /\ pc' = [pc EXCEPT ![w] = "dead"]
  /\ cur' = [cur EXCEPT ![w] = NoJob]
  /\ faulted' = faulted \cup {cur[w].id}
  /\ queue' = IF RxRefsWithout(w) = 0 THEN <<>> ELSE queue
  /\ UNCHANGED <<shutdownCalled, conns, routes, error_handlers, sent, mainPc, stdoutHolder>>
  /\ UNCHANGED <<size, workers, lockHolder, poisoned, poolAlive, prod,
                 nextId, dequeued, started, finished>>

\* One step of worker thread w.
Worker(w) ==
  \/ LockOk(w)
  \/ LockPoisoned(w)
  \/ Recv(w)
  \/ RecvDisconnected(w)
  \/ PrintlnPanic(w)
  \/ PrintlnBlocks(w)
  \/ Call(w)
  \/ HandlerLocksStdout(w)
  \/ HandlerReturn(w)
  \/ HandlerPanic(w)

Next ==
  \/ \E p \in Producers, f \in Handlers, v \in Payloads :
       Execute(p, f, v) /\ UNCHANGED <<conns, mainPc, stdoutHolder>>
  \/ Shutdown /\ UNCHANGED <<shutdownCalled, routes, error_handlers>>
  \/ DropPool
  \/ \E w \in 0..MaxWorkers : Worker(w)

Spec == Init /\ [][Next]_vars

\* The threads are scheduled by the operating system: a thread that can take
\* a step eventually takes one.  At println! of line 21 that step is one of
\* three: the line is printed and the handler entered, println! panics, or
\* println! enters a write that never returns; a thread that waits there,
\* or inside its handler, for the lock of stdout has no step to take.
FairSpec == Spec /\ \A w \in 0..MaxWorkers : WF_vars(Worker(w))

\* The same steps, with every shutdown() call recorded in the history.
ShutdownNext ==
  \/ \E p \in Producers, f \in Handlers, v \in Payloads :
       Execute(p, f, v) /\ UNCHANGED <<conns, mainPc, stdoutHolder>>
  \/ Shutdown /\ shutdownCalled' = TRUE
  \/ DropPool
  \/ \E w \in 0..MaxWorkers : Worker(w)

ShutdownSpec == Init /\ [][ShutdownNext]_vars

\* ----------------------------------------------------------------- history
\* Serials of the jobs in a history (dequeued, started).
JobIds(h) == {h[i].job.id : i \in DOMAIN h}

\* Serials of the jobs in the channel's buffer.
QueueIds == {queue[i].id : i \in DOMAIN queue}

\* The handler of job i has been called.
Started(i) == i \in JobIds(started)

\* Jobs whose handler has been called and has neither returned nor panicked.
Executing == JobIds(started) \ (finished \cup faulted)

\* Worker w is inside a handler that never returns.
Occupied(w) == pc[w] = "exec" /\ Behaviour(cur[w].f) = {}

\* Every worker thread has terminated or sits in a handler that never
\* returns: no worker is left that could take a job.
NoWorkerAvailable ==
  \A w \in Threads : pc[w] = "dead" \/ Occupied(w)

\* Worker w has a job in hand and is held at println! of line 21 for ever:
\* inside a write that never returns, or waiting for the lock of stdout.
HeldAtPrintln(w) == pc[w] = "print" \/ (pc[w] = "call" /\ StdoutHeld)

\* Serials of the jobs destroyed by a panic of println! of line 21.
PrintlnLost ==
  {i \in JobIds(dequeued) :
     /\ ~Started(i)
     /\ \E k \in DOMAIN dequeued :
          dequeued[k].job.id = i /\ pc[dequeued[k].w] = "dead"}

\* -------------------------------------------------------------------- C1
\* C1: at-most-once delivery.  No job is received twice or by two workers,
\* no handler is started twice for one job, a received job is no longer in
\* the queue, and the jobs in the queue are pairwise distinct; jobs with the
\* same handler and payload are still separate deliveries.
C1_AtMostOnce ==
  /\ \A i, j \in DOMAIN dequeued :
       i # j => dequeued[i].job.id # dequeued[j].job.id
  /\ \A i, j \in DOMAIN started :
       i # j => started[i].job.id # started[j].job.id
  /\ \A i, j \in DOMAIN queue : i # j => queue[i].id # queue[j].id
  /\ QueueIds \cap JobIds(dequeued) = {}
  /\ \A w1, w2 \in Threads :
       (w1 # w2 /\ cur[w1] # NoJob) => cur[w1].id # cur[w2].id
  /\ JobIds(started) \subseteq JobIds(dequeued)
  /\ Len(dequeued) + Len(queue) <= nextId

\* Two jobs with the same handler and the same payload have both been
\* delivered and started, by two different workers.
C1_Witness ==
  \E i, j \in DOMAIN started :
    /\ i # j
    /\ started[i].job.f = started[j].job.f
    /\ started[i].job.arg = started[j].job.arg
    /\ started[i].w # started[j].w

\* -------------------------------------------------------------------- C2
\* C2: eventual execution.  In a pool of size >= 1 every submitted job
\* eventually has its handler called, as long as a worker is alive to take
\* it; a worker inside a handler that never returns is not one (the
\* capacity exhaustion of C7).  Termination and such a handler last once
\* they hold, and so does a call: again and again, either the pool has been
\* dropped, or no worker is left, or every job submitted so far has been
\* started.
C2_EventualExecution ==
  []<>(\/ ~poolAlive
       \/ NoWorkerAvailable
       \/ \A i \in 1..nextId : Started(i))

\* The case C2 fails on: the pool exists, one worker has terminated in
\* println! with a job in hand that was never started, and the other worker
\* is alive and waits for a job.
C2_Witness ==
  /\ size = 2
  /\ poolAlive
  /\ PrintlnLost # {}
  /\ \E w \in Threads : pc[w] \in {"lock", "recv"}

\* -------------------------------------------------------------------- C3
\* C3: parallelism bound.  At most `size` handlers execute at any time, and
\* while `size` handlers are executing no further job leaves the queue and
\* no further handler is started.
C3_ParallelismBound ==
  /\ [](Cardinality(Executing) <= size)
  /\ [][Cardinality(Executing) = size =>
          /\ started' = started
          /\ dequeued' = dequeued]_vars

\* Two handlers execute in a pool of size 2 while a third job waits.
C3_Witness ==
  /\ size = 2
  /\ Cardinality(Executing) = 2
  /\ queue # <<>>

\* -------------------------------------------------------------------- C4
\* C4: FIFO within one producer.  Jobs of one producer leave the queue in
\* the order they were submitted (serials increase), for any pool size; with
\* one worker their handlers are also called in that order: when a handler
\* has been called, the handler of every earlier job has been called and
\* has returned or panicked.
C4_Fifo ==
  /\ \A i, j \in DOMAIN dequeued :
       (i < j /\ dequeued[i].job.producer = dequeued[j].job.producer)
         => dequeued[i].job.id < dequeued[j].job.id
  /\ \A i, j \in DOMAIN queue :
       (i < j /\ queue[i].producer = queue[j].producer)
         => queue[i].id < queue[j].id
  /\ \A i \in DOMAIN dequeued, j \in DOMAIN queue :
       dequeued[i].job.producer = queue[j].producer
         => dequeued[i].job.id < queue[j].id
  /\ size = 1 =>
       \A j \in DOMAIN started :
         \A i \in 1..(started[j].job.id - 1) :
           /\ Started(i)
           /\ i \in finished \cup faulted

\* One worker has run three jobs of the producer to completion.
C4_Witness ==
  /\ size = 1
  /\ Len(started) = 3
  /\ finished = {1, 2, 3}

\* -------------------------------------------------------------------- C5
\* C5: execute() never blocks on the workers.  In a pool of size >= 1 no
\* execute() call fails, and whatever the workers are doing and however many
\* jobs are queued, a call can complete at once with the job appended to the
\* queue and no worker's state touched.
C5_SubmitNeverBlocks ==
  size >= 1 =>
    \A p \in Producers :
      /\ prod[p] = "running"
      /\ (poolAlive /\ nextId < MaxJobs) =>
           \A f \in Handlers, v \in Payloads :
             ENABLED (/\ Execute(p, f, v)
                      /\ queue' = Append(queue, [id |-> nextId + 1,
                                   producer |-> p, f |-> f, arg |-> v]))

\* One worker is stuck in a handler that never returns, the other holds the
\* receive lock in recv(), a job submitted meanwhile is in the queue and
\* another can still be submitted.
C5_Witness ==
  /\ size = 2
  /\ poolAlive
  /\ \E w \in Threads : Occupied(w)
  /\ \E w \in Threads : lockHolder = w
  /\ queue # <<>>
  /\ nextId = 2
  /\ nextId < MaxJobs

\* -------------------------------------------------------------------- C6
\* C6: handlers of different jobs run in parallel.  The receive lock is held
\* exactly by the worker that is in recv(), never by a worker that has a job
\* in hand; so a worker inside a handler, even one that never returns, never
\* keeps another worker from locking, receiving and starting the handler of
\* the job it received.  A job is started only by the worker that dequeued
\* it.
C6_ParallelHandlers ==
  /\ \A w \in Threads : (lockHolder = w) <=> (pc[w] = "recv")
  /\ lockHolder # NoWorker => lockHolder \in Threads
  /\ \A w, w2 \in Threads :
       (/\ pc[w] \in {"call", "exec"}
        /\ pc[w2] = "lock"
        /\ ~poisoned
        /\ \A w3 \in Threads : pc[w3] # "recv")
         => ENABLED LockOk(w2)
  /\ \A w, w2 \in Threads :
       (pc[w] \in {"call", "exec"} /\ pc[w2] = "recv" /\ queue # <<>>)
         => ENABLED Recv(w2)
  /\ \A w, w2 \in Threads :
       (pc[w] = "exec" /\ pc[w2] = "call") => ENABLED Call(w2)
  /\ \A i \in DOMAIN started :
       \E j \in DOMAIN dequeued : dequeued[j] = started[i]
  /\ \A w \in Threads :
       pc[w] \in {"call", "exec"} =>
         \E j \in DOMAIN dequeued : dequeued[j] = [job |-> cur[w], w |-> w]

\* The case C6 fails on: one worker sits in a handler that never returns
\* and holds the lock of stdout; the other worker has dequeued a later job
\* and cannot start it.
C6_Witness ==
  \E w, w2 \in Threads :
    /\ w # w2
    /\ Occupied(w)
    /\ stdoutHolder = [kind |-> "worker", id |-> w]
    /\ pc[w2] = "call"
    /\ cur[w2].id > cur[w].id
    /\ ~ENABLED Call(w2)

\* -------------------------------------------------------------------- C7
\* Workers that hold a job whose handler never returns.
Blocked ==
  {w \in Threads :
     pc[w] \in {"call", "print", "exec"} /\ Behaviour(cur[w].f) = {}}

\* `size` jobs whose handlers never return have been dequeued in a pool of
\* size >= 1.
Exhausted ==
  /\ size >= 1
  /\ Cardinality({k \in DOMAIN dequeued :
                    Behaviour(dequeued[k].job.f) = {}}) = size

\* C7: capacity exhaustion.  Once `size` jobs whose handlers never return
\* have been dequeued, the pool stays in that condition: every worker holds
\* one of them (or has terminated with it in hand), no further job is
\* dequeued or started, and the jobs in the queue stay there for as long as
\* the queue exists.
C7_CapacityExhaustion ==
  /\ [][Exhausted =>
          /\ Exhausted'
          /\ dequeued' = dequeued
          /\ JobIds(started') \subseteq JobIds(dequeued)
          /\ RxRefs' > 0 =>
               /\ Len(queue') >= Len(queue)
               /\ SubSeq(queue', 1, Len(queue)) = queue]_vars
  /\ [](Exhausted =>
          /\ QueueIds \cap JobIds(started) = {}
          /\ \A w \in Threads : w \in Blocked \/ pc[w] = "dead")

\* Both workers of a pool of size 2 are in handlers that never return and a
\* third job, submitted afterwards, sits in the queue.
C7_Witness ==
  /\ size = 2
  /\ \A w \in Threads : Occupied(w)
  /\ Len(queue) = 1
  /\ queue[1].id = 3

\* -------------------------------------------------------------------- C8
\* C8 as stated: a pool of size 0 accepts execute() without the submitter
\* failing, and runs nothing.
C8_Original ==
  size = 0 => /\ \A p \in Producers : prod[p] = "running"
              /\ started = <<>>

\* C8 (amended): a pool of size 0 has no receiving end left, so execute()
\* fails: the first call panics in the submitter, nothing is ever enqueued,
\* and no job is ever executed.
C8_ZeroSizePool ==
  size = 0 =>
    /\ RxRefs = 0
    /\ queue = <<>> /\ nextId = 0
    /\ dequeued = <<>> /\ started = <<>>
    /\ \A p \in Producers, f \in Handlers, v \in Payloads :
         /\ ~ENABLED (Execute(p, f, v) /\ queue' # queue)
         /\ (poolAlive /\ prod[p] = "running") =>
              ENABLED (Execute(p, f, v) /\ prod'[p] = "panicked")

\* The submitter has called execute() on a pool of size 0.
C8_Witness ==
  /\ size = 0
  /\ prod["main"] = "panicked"

\* -------------------------------------------------------------------- C9
\* C9: fixed worker set.  The pool owns exactly `size` workers, with ids
\* 0..size-1 in order, all on the one Receiver, one thread each; and no step
\* changes the set.
C9_FixedWorkerSet ==
  /\ [](/\ Len(workers) = size
        /\ \A i \in DOMAIN workers :
             workers[i].id = i - 1 /\ workers[i].rx = RX
        /\ Threads = 0..(size - 1)
        /\ DOMAIN cur = Threads)
  /\ [][workers' = workers /\ DOMAIN pc' = DOMAIN pc /\ size' = size]_vars

\* A pool of two workers after jobs were executed and a handler panicked.
C9_Witness ==
  /\ Len(workers) = 2
  /\ faulted # {}
  /\ finished # {}
  /\ nextId = MaxJobs

\* ------------------------------------------------------------------- C10
\* C10: a handler fault shrinks capacity.  The number of live workers never
\* grows; a step in which a handler panics lowers it by exactly one; while
\* the pool exists it equals size minus the number of faulted jobs; and a
\* faulted job is not put back on the queue, handed to a worker or started
\* again.
C10_FaultShrinksCapacity ==
  /\ [][/\ Cardinality(Live') <= Cardinality(Live)
        /\ faulted' # faulted =>
             /\ Cardinality(Live') = Cardinality(Live) - 1
             /\ Cardinality(faulted') = Cardinality(faulted) + 1]_vars
  /\ [](poolAlive =>
          Cardinality(Live) =
            size - Cardinality(faulted) - Cardinality(PrintlnLost))
  /\ [](\A i \in faulted :
          /\ i \notin QueueIds
          /\ \A w \in Threads : cur[w].id # i
          /\ Cardinality({k \in DOMAIN started : started[k].job.id = i}) = 1
          /\ i \notin finished)

\* Both workers of a pool of size 2 were lost to panicking handlers, and a
\* third job is still queued.
C10_Witness ==
  /\ size = 2
  /\ poolAlive
  /\ Cardinality(faulted) = 2
  /\ Live = {}
  /\ queue # <<>>

\* ------------------------------------------------------------------- C11
\* Jobs submitted whose handler has not been called yet.
Pending == {i \in 1..nextId : ~Started(i)}

\* C11: inert shutdown.  A shutdown() call changes nothing: the queue, every
\* worker's position and job, the lock, the live workers, the pool and the
\* submitter are as before the call, so execute() is possible after it
\* exactly when it was before; and after a call no worker has been stopped
\* by it and every worker can go on as it would without the call: take the
\* lock, take the next queued job, call its handler, return from it.
C11_InertShutdown ==
  /\ [][shutdownCalled' # shutdownCalled =>
          UNCHANGED <<size, workers, pc, cur, queue, lockHolder, poisoned,
                      poolAlive, prod, nextId, sent, dequeued, started,
                      finished, faulted, stdoutHolder>>]_vars
  /\ [](shutdownCalled /\ poolAlive /\ nextId < MaxJobs /\ size >= 1 =>
          \A p \in Producers, f \in Handlers, v \in Payloads :
            ENABLED (Execute(p, f, v) /\ nextId' = nextId + 1))
  /\ [](shutdownCalled /\ poolAlive =>
          Cardinality(Live) =
            size - Cardinality(faulted) - Cardinality(PrintlnLost))
  /\ [](shutdownCalled =>
          \A w \in Threads :
            /\ (pc[w] = "lock" /\ lockHolder = NoWorker /\ ~poisoned)
                 => ENABLED LockOk(w)
            /\ (pc[w] = "recv" /\ queue # <<>>) => ENABLED Recv(w)
            /\ (pc[w] = "call" /\ ~StdoutHeld) => ENABLED Call(w)
            /\ (pc[w] = "exec" /\ "return" \in Behaviour(cur[w].f))
                 => ENABLED HandlerReturn(w))

\* After a shutdown() call the pool has taken all MaxJobs jobs, one worker is
\* executing, the other has finished a job and is back in recv().
C11_Witness ==
  /\ shutdownCalled
  /\ poolAlive
  /\ size = 2
  /\ nextId = MaxJobs
  /\ Pending = {}
  /\ finished # {}
  /\ \E w \in Threads : pc[w] = "exec"
  /\ \E w \in Threads : pc[w] = "recv"

\* ------------------------------------------------------------------- C13
\* Worker w waits for a job (at lock() or in recv()).
Idle(w) == pc[w] \in {"lock", "recv"}

\* Worker w has a job in hand (lines 21-22).
Busy(w) == pc[w] \in {"call", "print", "exec"}

\* The pool has not been dropped and no handler has panicked.
Normal == poolAlive /\ faulted = {}

\* C13: worker state machine.  In normal operation every worker is Idle or
\* Executing, never terminated; it leaves Idle only by taking the head of
\* the queue and leaves Executing only by its handler returning; and it has
\* one job in hand when Executing and none when Idle.
C13_WorkerStateMachine ==
  /\ [](Normal => \A w \in Threads : Idle(w) \/ Busy(w))
  /\ [](\A w \in Threads :
          /\ Idle(w) => cur[w] = NoJob
          /\ Busy(w) => cur[w] # NoJob
          /\ Cardinality({k \in DOMAIN started :
               started[k].w = w /\ started[k].job.id \in Executing}) <= 1)
  /\ [][Normal' =>
          \A w \in Threads :
            /\ <<pc[w], pc'[w]>> \in
                 {<<"lock", "lock">>, <<"lock", "recv">>, <<"recv", "recv">>,
                  <<"recv", "call">>, <<"call", "call">>, <<"call", "exec">>,
                  <<"call", "print">>, <<"print", "print">>,
                  <<"exec", "exec">>, <<"exec", "lock">>}
            /\ (Idle(w) /\ Busy(w)') => cur'[w] = Head(queue)
            /\ (Busy(w) /\ Idle(w)') => cur[w].id \in finished']_vars

\* The case C13 fails on: in normal operation a worker has terminated, with
\* the job it had received never started.
C13_Witness ==
  /\ Normal
  /\ \E w \in Threads : pc[w] = "dead"
  /\ PrintlnLost # {}

\* ------------------------------------------------------------------- C14
\* C14: fire-and-forget.  No step of a worker (a handler returning,
\* panicking, or never returning) changes the submitter; after handlers have
\* returned, panicked or got stuck the submitter of a pool of size >= 1 is
\* still running and its next execute() call enqueues its job.
C14_FireAndForget ==
  /\ [][pc' # pc => prod' = prod]_vars
  /\ [][finished' # finished \/ faulted' # faulted => prod' = prod]_vars
  /\ [](size >= 1 =>
          \A p \in Producers :
            /\ prod[p] = "running"
            /\ (poolAlive /\ nextId < MaxJobs) =>
                 \A f \in Handlers, v \in Payloads :
                   ENABLED (Execute(p, f, v) /\ nextId' = nextId + 1))

\* One handler has panicked, one has returned and one never returns; the
\* submitter is running.
C14_Witness ==
  /\ faulted # {}
  /\ finished # {}
  /\ \E w \in Threads : Occupied(w)
  /\ prod["main"] = "running"

\* ------------------------------------------------------------------- C15
\* The jobs sent so far, wherever they are now: received, still buffered,
\* or destroyed with the Receiver.
JobsSeen == {sent[k].job : k \in DOMAIN sent}

\* Job i has been sent and its handler always returns.
Returns(i) == \E j \in JobsSeen : j.id = i /\ Behaviour(j.f) = {"return"}

\* C15: jobs not exceeding the worker count never wait for each other.  As
\* long as no more jobs than workers have been submitted, every job gets its
\* handler called, whatever the other handlers do, and every job whose
\* handler returns is completed.
C15_NoWaiting ==
  []<>(\/ nextId > size
       \/ ~poolAlive
       \/ /\ Pending = {}
          /\ \A i \in 1..nextId : Returns(i) => i \in finished)

\* The case C15 fails on: one job on a pool of idle workers whose handler
\* was never called, the worker that received it having terminated.
C15_Witness ==
  /\ size >= 1
  /\ nextId = 1
  /\ poolAlive
  /\ PrintlnLost = {1}

\* ------------------------------------------------------------------- C17
\* C17: queue closure terminates the pool.  Once the pool is dropped,
\* eventually every worker has terminated, none stays at lock() or in
\* recv(); a worker inside a handler that never returns makes no further
\* dequeue attempt and is not counted (the capacity exhaustion of C7).  A
\* worker in recv() terminates only on the empty, closed queue, and doing so
\* poisons the mutex; from then on no worker gets the lock, a worker at
\* lock() terminates only because of the poison, and every job sent before
\* the drop had been dequeued first.
C17_QueueClosure ==
  /\ (~poolAlive) ~> NoWorkerAvailable
  /\ [](poisoned =>
          /\ ~poolAlive
          /\ queue = <<>>
          /\ lockHolder = NoWorker
          /\ \A i \in 1..nextId : i \in JobIds(dequeued))
  /\ [](Live # {} => \A i \in 1..nextId : i \in QueueIds \cup JobIds(dequeued))
  /\ [][\A w \in Threads :
          /\ (pc[w] = "recv" /\ pc'[w] = "dead") =>
               (queue = <<>> /\ ~poolAlive /\ poisoned')
          /\ (pc[w] = "lock" /\ pc'[w] = "dead") => poisoned]_vars

\* The case C17 fails on: the pool was dropped, the queue is empty and
\* closed, one worker has terminated on it and the other, in no handler, is
\* held at println! with a job in hand.
C17_Witness ==
  /\ ~poolAlive
  /\ size = 2
  /\ poisoned
  /\ queue = <<>>
  /\ \E w, w2 \in Threads :
       pc[w] = "dead" /\ HeldAtPrintln(w2) /\ Behaviour(cur[w2].f) # {}

\* ------------------------------------------------------------------- C18
\* A job whose handler never returns has been sent.
AnyBlocks == \E j \in JobsSeen : Behaviour(j.f) = {}

\* The jobs sent after a handler had panicked.
SentAfterFault == {sent[k].job.id : k \in {n \in DOMAIN sent : sent[n].faults >= 1}}

\* C18: a handler fault does not poison the receive side.  While the pool
\* exists the mutex is never poisoned; a step in which a handler panics ends
\* that one worker and leaves the lock, the poison flag and every other
\* worker as they were; and with fewer than `size` faulted jobs and no
\* handler that never returns, every job submitted after a fault whose
\* handler returns gets its handler called.
C18_FaultDoesNotPoison ==
  /\ [](poolAlive => ~poisoned)
  /\ [][faulted' # faulted =>
          /\ poisoned' = poisoned
          /\ lockHolder' = lockHolder
          /\ \E w \in Threads :
               /\ pc[w] = "exec" /\ pc'[w] = "dead"
               /\ \A w2 \in Threads \ {w} :
                    pc'[w2] = pc[w2] /\ cur'[w2] = cur[w2]]_vars
  /\ []<>(\/ \A i \in SentAfterFault : Returns(i) => Started(i)
          \/ Cardinality(faulted) >= size
          \/ AnyBlocks
          \/ ~poolAlive)

\* The case C18 fails on: one worker of two was lost to a panicking handler,
\* the mutex is not poisoned, and a job submitted afterwards, whose handler
\* returns, was received by the other worker and never started.
C18_Witness ==
  /\ size = 2
  /\ poolAlive
  /\ ~poisoned
  /\ Cardinality(faulted) = 1
  /\ ~AnyBlocks
  /\ \E j \in PrintlnLost \cap SentAfterFault : Returns(j)

\* ------------------------------------------------------------------- C19
\* C19: submission outlives the workers.  In a pool of size >= 1 that has
\* not been dropped the Receiver is referenced by the `size` Worker records,
\* so execute() never fails; once every worker thread has terminated a call
\* still enqueues its job, and nothing is dequeued or started any more.
C19_SubmissionOutlivesWorkers ==
  /\ []((size >= 1 /\ poolAlive) => RxRefs >= size)
  /\ [](size >= 1 => \A p \in Producers : prod[p] = "running")
  /\ []((size >= 1 /\ poolAlive /\ Live = {} /\ nextId < MaxJobs) =>
          \A p \in Producers, f \in Handlers, v \in Payloads :
            ENABLED (/\ Execute(p, f, v)
                     /\ queue' = Append(queue, [id |-> nextId + 1,
                                  producer |-> p, f |-> f, arg |-> v])))
  /\ [][(size >= 1 /\ Live = {}) =>
          /\ started' = started
          /\ dequeued' = dequeued
          /\ poolAlive' =>
               (Len(queue') >= Len(queue)
                  /\ SubSeq(queue', 1, Len(queue)) = queue)]_vars

\* The only worker of a pool was lost to a panicking handler; two jobs sit
\* in the queue of the still existing pool.
C19_Witness ==
  /\ size = 1
  /\ poolAlive
  /\ Live = {}
  /\ Len(queue) = 2

\* ------------------------------------------------------------- dispatcher
\* A line of a request is the sequence of its pieces: words and " " for a
\* run of whitespace.  "" is the empty sequence.
\* line.is_empty()
is_empty(line) == line = <<>>

\* A line the reader fails on (an io::Error, as for bytes that are not
\* UTF-8) is the one-piece sequence <<"io::Error">>.
is_err(res) == res # <<>> /\ res[1] = "io::Error"

\* A line that never arrives, the client keeping the connection open without
\* sending it, is the one-piece sequence <<"pending">>.
is_pending(res) == res # <<>> /\ res[1] = "pending"

\* .lines().map(|res| res.unwrap()) panics on the first failed read that
\* the lazy take_while reaches, that is before any empty line.
RECURSIVE read_fails(_)
read_fails(lines) ==
  IF lines = <<>> THEN FALSE
  ELSE IF is_err(Head(lines)) THEN TRUE
  ELSE IF is_empty(Head(lines)) \/ is_pending(Head(lines)) THEN FALSE
  ELSE read_fails(Tail(lines))

\* The blocking read of .lines() waits for ever: the client stops sending
\* and keeps the connection open before it has sent an empty line and before
\* a read has failed.  The end of the text is the end of the stream, which
\* ends the header.
RECURSIVE read_waits(_)
read_waits(lines) ==
  IF lines = <<>> THEN FALSE
  ELSE IF is_pending(Head(lines)) THEN TRUE
  ELSE IF is_err(Head(lines)) \/ is_empty(Head(lines)) THEN FALSE
  ELSE read_waits(Tail(lines))

\* line.split_whitespace() collected: the words of the line.
split_whitespace(line) == SelectSeq(line, LAMBDA t : t # " ")

\* .take_while(|line| !line.is_empty()).collect(): the lines before the
\* first empty one.
RECURSIVE take_while_nonempty(_)
take_while_nonempty(lines) ==
  IF lines = <<>> \/ is_empty(Head(lines)) \/ is_pending(Head(lines)) THEN <<>>
  ELSE <<Head(lines)>> \o take_while_nonempty(Tail(lines))

\* HttpRequest::from_header: None for no line or an unknown method; the two
\* words.next().unwrap() panic on a first line of fewer than two words,
\* before the method is looked at.
from_header(req) ==
  IF Len(req) = 0 THEN [kind |-> "None"]
  ELSE LET words == split_whitespace(req[1]) IN
    IF Len(words) < 1 THEN [kind |-> "Panic", line |-> 49]
    ELSE IF Len(words) < 2 THEN [kind |-> "Panic", line |-> 50]
    ELSE LET m == words[1]
             r == words[2]
         IN CASE m = "GET" ->
                   [kind |-> "Some", method |-> "HttpMethod::GET", uri |-> r]
              [] m = "POST" ->
                   [kind |-> "Some", method |-> "HttpMethod::POST", uri |-> r]
              [] m = "PUT" ->
                   [kind |-> "Some", method |-> "HttpMethod::PUT", uri |-> r]
              [] m = "DELETE" ->
                   [kind |-> "Some", method |-> "HttpMethod::DELETE", uri |-> r]
              [] OTHER -> [kind |-> "None"]

\* HttpServer::handle_error: the handler registered for err is submitted
\* with the stream.
handle_error(stream, err) == Execute("main", error_handlers[err], stream)

\* HttpServer::route: the handler registered for (method, uri) is submitted
\* with the stream, or the NotFound handler when there is none.
route(stream, req) ==
  LET key == <<req.method, req.uri>> IN
  IF key \in DOMAIN routes
    THEN Execute("main", routes[key], stream)
    ELSE handle_error(stream, "NotFound")

\* The request texts a client sends in the model, each a sequence of lines;
\* the last two clients stop before the header is complete and stay
\* connected.
Requests ==
  { << <<"GET", " ", "/", " ", "HTTP/1.1">>, <<"Host:", " ", "x">>, <<>> >>,
    << <<"GET", " ", "/sleep">>, <<>> >>,
    << <<"GET", " ", "/missing">>, <<>> >>,
    << <<"POST", " ", "/">>, <<>> >>,
    << <<"BREW", " ", "/">>, <<>> >>,
    << <<>> >>,
    << <<"GET">>, <<>> >>,
    << <<"BREW">>, <<>> >>,
    << <<" ">>, <<>> >>,
    << <<"GET", " ", "/">>, <<"io::Error">> >>,
    << <<"GET", " ", "/", " ", "HTTP/1.1">>, <<"pending">> >>,
    << <<"pending">> >> }

\* A panic on the accept loop's thread, which is the main thread: serve
\* and main unwind, and main's `app` is dropped, the ThreadPool with it (tx
\* and the workers Vec, as in DropPool).
Unwind ==
  /\ prod' = [prod EXCEPT !["main"] = "panicked"]
  /\ poolAlive' = FALSE
  /\ queue' = IF Live = {} THEN <<>> ELSE queue
  /\ UNCHANGED <<size, workers, pc, cur, lockHolder, poisoned, nextId, sent,
                 dequeued, started, finished, faulted, shutdownCalled,
                 routes, error_handlers>>

\* listener.incoming() of serve yields a connection and stream.unwrap()
\* succeeds: the stream, named by the connection's number, is handed to
\* respond.  raw is what the client sends on it.
Accept(raw) ==
  /\ prod["main"] = "running"
  /\ mainPc = "accept"
  /\ Len(conns) < MaxConns
  /\ conns' = Append(conns, raw)
  /\ mainPc' = "read"
  /\ UNCHANGED <<size, workers, pc, cur, queue, lockHolder, poisoned,
                 poolAlive, prod, nextId, sent, dequeued, started, finished,
                 faulted, shutdownCalled, routes, error_handlers,
                 stdoutHolder>>

\* What respond makes of the text of a connection: the header read up to
\* the first empty line and parsed by from_header, or the panic of
\* res.unwrap() on a failed read.
Parsed(raw) ==
  IF read_fails(raw) THEN [kind |-> "Panic", line |-> 140]
  ELSE from_header(take_while_nonempty(raw))

\* HttpServer::respond, main.rs:137-144: the blocking read of the header
\* returns once the client has completed it, and from_header returns.  While
\* the client has not, respond waits here and accepts nothing.
ReadHeader ==
  /\ prod["main"] = "running"
  /\ mainPc = "read"
  /\ ~read_waits(conns[Len(conns)])
  /\ Parsed(conns[Len(conns)]).kind # "Panic"
  /\ mainPc' = "respond"
  /\ UNCHANGED <<size, workers, pc, cur, queue, lockHolder, poisoned,
                 poolAlive, prod, nextId, sent, dequeued, started, finished,
                 faulted, shutdownCalled, conns, routes, error_handlers,
                 stdoutHolder>>

\* HttpServer::respond, main.rs:137-144: res.unwrap() panics on a failed
\* read, or one of the two words.next().unwrap() of from_header panics,
\* before anything is printed or submitted.
ReadHeaderPanics ==
  /\ prod["main"] = "running"
  /\ mainPc = "read"
  /\ ~read_waits(conns[Len(conns)])
  /\ Parsed(conns[Len(conns)]).kind = "Panic"
  /\ Unwind
  /\ UNCHANGED <<conns, mainPc, stdoutHolder>>

\* HttpServer::respond, the arms of the match: println! of main.rs:146 or
\* 151 takes the lock of stdout, writes its line and gives the lock back.
RespondPrintln ==
  /\ prod["main"] = "running"
  /\ mainPc = "respond"
  /\ ~StdoutHeld
  /\ mainPc' = "send"
  /\ UNCHANGED <<size, workers, pc, cur, queue, lockHolder, poisoned,
                 poolAlive, prod, nextId, sent, dequeued, started, finished,
                 faulted, shutdownCalled, conns, routes, error_handlers,
                 stdoutHolder>>

\* println! of main.rs:146 or 151 cannot write and panics, before the job
\* is submitted.
RespondPanics ==
  /\ prod["main"] = "running"
  /\ mainPc = "respond"
  /\ ~StdoutHeld
  /\ Unwind
  /\ UNCHANGED <<conns, mainPc, stdoutHolder>>

\* println! of main.rs:146 or 151 takes the lock of stdout and its write
\* never returns (a full pipe nobody reads): the accept loop's thread stays
\* there for ever and the job is not submitted.
RespondBlocks ==
  /\ prod["main"] = "running"
  /\ mainPc = "respond"
  /\ ~StdoutHeld
  /\ mainPc' = "respond_print"
  /\ stdoutHolder' = [kind |-> "main", id |-> -1]
  /\ UNCHANGED <<size, workers, pc, cur, queue, lockHolder, poisoned,
                 poolAlive, prod, nextId, sent, dequeued, started, finished,
                 faulted, shutdownCalled, conns, routes, error_handlers>>

\* HttpServer::respond, the arms of the match after their println!: the job
\* is submitted by route (main.rs:147) or handle_error (main.rs:152), which
\* need no stdout.
Respond ==
  LET stream == Len(conns)
      parsed == Parsed(conns[Len(conns)])
  IN /\ prod["main"] = "running"
     /\ mainPc = "send"
     /\ UNCHANGED <<conns, stdoutHolder>>
     /\ CASE parsed.kind = "Some" ->
               route(stream, parsed) /\ mainPc' = "report"
          [] parsed.kind = "None" ->
               handle_error(stream, "BadRequest") /\ mainPc' = "accept"

\* println! of main.rs:148 takes the lock of stdout and its write never
\* returns, after the job was submitted.
ReportBlocks ==
  /\ prod["main"] = "running"
  /\ mainPc = "report"
  /\ ~StdoutHeld
  /\ mainPc' = "report_print"
  /\ stdoutHolder' = [kind |-> "main", id |-> -1]
  /\ UNCHANGED <<size, workers, pc, cur, queue, lockHolder, poisoned,
                 poolAlive, prod, nextId, sent, dequeued, started, finished,
                 faulted, shutdownCalled, conns, routes, error_handlers>>

\* println!("Response: {:?}", resp) of main.rs:148 succeeds and respond
\* returns to the accept loop.
Report ==
  /\ prod["main"] = "running"
  /\ mainPc = "report"
  /\ ~StdoutHeld
  /\ mainPc' = "accept"
  /\ UNCHANGED <<size, workers, pc, cur, queue, lockHolder, poisoned,
                 poolAlive, prod, nextId, sent, dequeued, started, finished,
                 faulted, shutdownCalled, conns, routes, error_handlers,
                 stdoutHolder>>

\* println!("Response: {:?}", resp) of main.rs:148 cannot write and panics,
\* after the job was submitted.
ReportPanics ==
  /\ prod["main"] = "running"
  /\ mainPc = "report"
  /\ ~StdoutHeld
  /\ Unwind
  /\ UNCHANGED <<conns, mainPc, stdoutHolder>>

\* TcpListener::bind(..).unwrap() or stream.unwrap() of serve panics on a
\* bind or accept error.
AcceptFails ==
  /\ prod["main"] = "running"
  /\ mainPc = "accept"
  /\ Unwind
  /\ UNCHANGED <<conns, mainPc, stdoutHolder>>

\* The main thread has panicked and unwound: the process exits (status 101)
\* and every worker thread stops where it is.
ProcessExit ==
  /\ prod["main"] = "panicked"
  /\ prod' = [prod EXCEPT !["main"] = "exited"]
  /\ UNCHANGED <<size, workers, pc, cur, queue, lockHolder, poisoned,
                 poolAlive, nextId, sent, dequeued, started, finished,
                 faulted, shutdownCalled, conns, routes, error_handlers,
                 mainPc, stdoutHolder>>

\* HttpServer::new and main: the pool of PoolSize workers and the tables.
ServerInit ==
  /\ routes = MainRoutes
  /\ error_handlers = NewErrorHandlers
  /\ size = PoolSize
  /\ workers = NewWorkers(PoolSize)
  /\ pc = [w \in 0..(PoolSize - 1) |-> "lock"]
  /\ cur = [w \in 0..(PoolSize - 1) |-> NoJob]
  /\ queue = <<>>
  /\ lockHolder = NoWorker
  /\ poisoned = FALSE
  /\ poolAlive = TRUE
  /\ prod = [p \in Producers |-> "running"]
  /\ nextId = 0
  /\ sent = <<>>
  /\ mainPc = "accept"
  /\ stdoutHolder = StdoutFree
  /\ dequeued = <<>>
  /\ started = <<>>
  /\ finished = {}
  /\ faulted = {}
  /\ shutdownCalled = FALSE
  /\ conns = <<>>

\* The server: serve's accept loop, respond on the same thread, and the
\* worker threads, which run at any time until the process exits.
ServerNext ==
  \/ \E raw \in Requests : Accept(raw)
  \/ ReadHeader
  \/ ReadHeaderPanics
  \/ RespondPrintln
  \/ RespondPanics
  \/ RespondBlocks
  \/ Respond
  \/ ReportBlocks
  \/ Report
  \/ ReportPanics
  \/ AcceptFails
  \/ ProcessExit
  \/ \E w \in 0..(PoolSize - 1) :
       \/ prod["main"] # "exited" /\ LockOk(w)
       \/ prod["main"] # "exited" /\ LockPoisoned(w)
       \/ prod["main"] # "exited" /\ Recv(w)
       \/ prod["main"] # "exited" /\ RecvDisconnected(w)
       \/ prod["main"] # "exited" /\ PrintlnPanic(w)
       \/ prod["main"] # "exited" /\ PrintlnBlocks(w)
       \/ prod["main"] # "exited" /\ Call(w)
       \/ prod["main"] # "exited" /\ HandlerReturn(w)
       \/ prod["main"] # "exited" /\ HandlerPanic(w)

ServerSpec == ServerInit /\ [][ServerNext]_vars

\* ------------------------------------------------------ dispatcher claims
\* The jobs submitted so far that carry connection c.
Submitted(c) == {j \in JobsSeen : j.arg = c}

\* The words of the request line of connection c, <<>> when the request has
\* no line before the first empty one.
RequestWords(c) ==
  LET req == take_while_nonempty(conns[c]) IN
  IF req = <<>> THEN <<>> ELSE split_whitespace(req[1])

\* The HttpMethod a method word names.
MethodNames == {"GET", "POST", "PUT", "DELETE"}
MethodNamed(m) ==
  CASE m = "GET"    -> "HttpMethod::GET"
    [] m = "POST"   -> "HttpMethod::POST"
    [] m = "PUT"    -> "HttpMethod::PUT"
    [] m = "DELETE" -> "HttpMethod::DELETE"

\* respond has dispatched connection c or ended without it: it is past the
\* match's route or handle_error, it has returned (a later connection was
\* accepted), or the accept loop's thread has panicked.
Responded(c) ==
  \/ c < Len(conns)
  \/ mainPc \in {"report", "report_print", "accept"}
  \/ prod["main"] # "running"

\* C12: one job per connection.  For every connection the accept loop has
\* handed to respond, whatever its request line (routed, unrouted, unknown
\* method, empty, fewer than two words), no more than one job carrying that
\* connection is ever submitted to the pool, and once respond is done with
\* the connection exactly one has been: never zero, never two.
C12_OneJobPerConnection ==
  /\ \A c \in DOMAIN conns : Cardinality(Submitted(c)) <= 1
  /\ \A c \in DOMAIN conns : Responded(c) => Cardinality(Submitted(c)) = 1

\* The case C12 fails on: a connection whose request line has fewer than two
\* words has been accepted, no job carries it, and the accept loop's thread
\* has panicked.
C12_Witness ==
  \E c \in DOMAIN conns :
    /\ ~read_waits(conns[c])
    /\ ~read_fails(conns[c])
    /\ take_while_nonempty(conns[c]) # <<>>
    /\ Len(RequestWords(c)) < 2
    /\ Submitted(c) = {}
    /\ prod["main"] = "panicked"

\* The handler the dispatcher is to resolve for a request line: BadRequest
\* for an empty request or a method word other than GET/POST/PUT/DELETE,
\* the route handler for a registered (method, uri), NotFound for an
\* unregistered one.  A line with no word at all, and a known method with
\* no uri, leave the handler open.
ResolvesTo(words, h) ==
  IF words = <<>> THEN TRUE
  ELSE IF words[1] \notin MethodNames
    THEN h = NewErrorHandlers["BadRequest"]
  ELSE IF Len(words) < 2 THEN TRUE
  ELSE LET key == <<MethodNamed(words[1]), words[2]>> IN
       IF key \in DOMAIN MainRoutes
         THEN h = MainRoutes[key]
         ELSE h = NewErrorHandlers["NotFound"]

\* The job j submitted for connection c carries the handler its request
\* resolves to.
Resolved(c, j) ==
  IF take_while_nonempty(conns[c]) = <<>>
    THEN j.f = NewErrorHandlers["BadRequest"]
    ELSE ResolvesTo(RequestWords(c), j.f)

\* The request of connection c is one whose handler C16 names: its header
\* was completed and read, and it is empty, or its method word is unknown, or it has a
\* known method and a uri.
Determined(c) ==
  /\ ~read_waits(conns[c])
  /\ ~read_fails(conns[c])
  /\ \/ take_while_nonempty(conns[c]) = <<>>
     \/ /\ RequestWords(c) # <<>>
        /\ RequestWords(c)[1] \notin MethodNames \/ Len(RequestWords(c)) >= 2

\* C16: handler resolution.  Once respond is done with a connection, the
\* job submitted for it carries the registered route handler exactly when
\* the request line parses to a
\* (method, uri) in the route table, the NotFound handler when the pair is
\* absent, and the BadRequest handler when the request is empty or its
\* method is not GET/POST/PUT/DELETE; dispatching leaves the route table and
\* the error table as they were registered.
C16_HandlerResolution ==
  /\ \A c \in DOMAIN conns :
       (Responded(c) /\ Determined(c)) =>
         \E j \in Submitted(c) : Resolved(c, j)
  /\ routes = MainRoutes
  /\ error_handlers = NewErrorHandlers

\* The case C16 fails on: a request line whose only word is an unknown
\* method has been accepted and no BadRequest job carries the connection.
C16_Witness ==
  \E c \in DOMAIN conns :
    /\ Responded(c)
    /\ ~read_waits(conns[c])
    /\ Len(RequestWords(c)) = 1
    /\ RequestWords(c)[1] \notin MethodNames
    /\ \A j \in JobsSeen : j.arg = c => j.f # NewErrorHandlers["BadRequest"]

\* What the code does keep of C16: every job that is submitted carries the
\* handler the request line resolves to, and the tables never change.
ResolutionOfSubmittedJobs ==
  /\ \A c \in DOMAIN conns :
       \A j \in Submitted(c) : Resolved(c, j)
  /\ \A c \in DOMAIN conns : Cardinality(Submitted(c)) <= 1
  /\ routes = MainRoutes
  /\ error_handlers = NewErrorHandlers

====
